---- MODULE Spec2Model ----
(***************************************************************************)
(* A model of linter/fortran.py: the fixed-form Fortran 77 tokenizer, the  *)
(* raw-line classifier, the logical-line assembler, the block recognizer   *)
(* and the visitor transforms.  Text is a sequence of one-character        *)
(* strings; positions are 1-based "next character" indices, so Python's    *)
(* text[k] is text[k+1] here.  A failed match is the end position -1.      *)
(***************************************************************************)
EXTENDS Integers, Sequences, FiniteSets, TLC

VARIABLES tk_text, tk_result, ln_line, ln_result,
          pc, source, raw_lines, logical_lines, parsed, task, output

vars == <<tk_text, tk_result, ln_line, ln_result,
          pc, source, raw_lines, logical_lines, parsed, task, output>>

tk_vars == <<tk_text, tk_result>>
ln_vars == <<ln_line, ln_result>>
main_vars == <<pc, source, raw_lines, logical_lines, parsed, task, output>>

\* ------------------------------------------------------------ characters

LowerLetters == {"a","b","c","d","e","f","g","h","i","j","k","l","m",
                 "n","o","p","q","r","s","t","u","v","w","x","y","z"}

UpperToLower == ("A" :> "a") @@ ("B" :> "b") @@ ("C" :> "c") @@ ("D" :> "d") @@
                ("E" :> "e") @@ ("F" :> "f") @@ ("G" :> "g") @@ ("H" :> "h") @@
                ("I" :> "i") @@ ("J" :> "j") @@ ("K" :> "k") @@ ("L" :> "l") @@
                ("M" :> "m") @@ ("N" :> "n") @@ ("O" :> "o") @@ ("P" :> "p") @@
                ("Q" :> "q") @@ ("R" :> "r") @@ ("S" :> "s") @@ ("T" :> "t") @@
                ("U" :> "u") @@ ("V" :> "v") @@ ("W" :> "w") @@ ("X" :> "x") @@
                ("Y" :> "y") @@ ("Z" :> "z")

UpperLetters == DOMAIN UpperToLower

Digits == {"0","1","2","3","4","5","6","7","8","9"}

DigitValue == ("0" :> 0) @@ ("1" :> 1) @@ ("2" :> 2) @@ ("3" :> 3) @@ ("4" :> 4) @@
              ("5" :> 5) @@ ("6" :> 6) @@ ("7" :> 7) @@ ("8" :> 8) @@ ("9" :> 9)

\* the characters str.strip / rstrip / lstrip remove
PyWhitespace == {" ", "\t", "\n", "\r", "\f"}

\* the characters the engine's `spaces` consumes
SpaceChars == {" ", "\t"}

\* str.lower on one character
LowerChar(c) == IF c \in UpperLetters THEN UpperToLower[c] ELSE c

\* str.lower
Lower(s) == [i \in 1..Len(s) |-> LowerChar(s[i])]

RECURSIVE RStripLen(_, _)
RStripLen(s, n) == IF n > 0 /\ s[n] \in PyWhitespace THEN RStripLen(s, n - 1) ELSE n

\* str.rstrip
RStrip(s) == SubSeq(s, 1, RStripLen(s, Len(s)))

RECURSIVE LStripPos(_, _)
LStripPos(s, p) == IF p <= Len(s) /\ s[p] \in PyWhitespace THEN LStripPos(s, p + 1) ELSE p

\* str.lstrip
LStrip(s) == SubSeq(s, LStripPos(s, 1), Len(s))

\* str.strip
Strip(s) == LStrip(RStrip(s))

\* Python slices s[k:] and s[:k] and s[a:b] (0-based, clipped)
SliceFrom(s, k) == SubSeq(s, k + 1, Len(s))
SliceTo(s, k) == SubSeq(s, 1, IF k < Len(s) THEN k ELSE Len(s))
Slice(s, a, b) == SubSeq(s, a + 1, IF b < Len(s) THEN b ELSE Len(s))

RECURSIVE Flatten(_)
\* "".join / concat: the concatenation of a sequence of sequences
Flatten(ss) == IF ss = <<>> THEN <<>> ELSE Head(ss) \o Flatten(Tail(ss))

RECURSIVE Repeat(_, _)
\* c * n
Repeat(c, n) == IF n <= 0 THEN <<>> ELSE <<c>> \o Repeat(c, n - 1)

\* Grammar.continuation_column and Grammar.margin_column
continuation_column == 5

margin_column == continuation_column + 1

\* ------------------------------------------------- combinator primitives
\* Each matcher takes the text and a start position and returns the end
\* position of the match, or NoMatch.  A matcher started at NoMatch returns
\* NoMatch, so a sequence a + b is b(text, a(text, pos)).

NoMatch == 0 - 1

Letters == LowerLetters \cup UpperLetters

\* a | b: the first parser's end, or the second's when the first fails
OrElse(a, b) == IF a # NoMatch THEN a ELSE b

\* a.optional() from pos: the end of a, or pos when a fails
optional(pos, a) == IF a # NoMatch THEN a ELSE pos

\* exact(string) and exact(string, ignore_case=True)
exact(text, pos, str, ignore_case) ==
    IF /\ pos # NoMatch
       /\ pos + Len(str) - 1 <= Len(text)
       /\ \A i \in 1..Len(str) :
             IF ignore_case
             THEN LowerChar(text[pos + i - 1]) = LowerChar(str[i])
             ELSE text[pos + i - 1] = str[i]
    THEN pos + Len(str)
    ELSE NoMatch

inexact(text, pos, str) == exact(text, pos, str, TRUE)

\* one_of(set), none_of(set), wildcard: one atom
one_of(text, pos, set) ==
    IF pos # NoMatch /\ pos <= Len(text) /\ text[pos] \in set THEN pos + 1 ELSE NoMatch

none_of(text, pos, set) ==
    IF pos # NoMatch /\ pos <= Len(text) /\ text[pos] \notin set THEN pos + 1 ELSE NoMatch

wildcard(text, pos) == IF pos # NoMatch /\ pos <= Len(text) THEN pos + 1 ELSE NoMatch

EOF(text, pos) == IF pos # NoMatch /\ pos > Len(text) THEN pos ELSE NoMatch

RECURSIVE ManyIn(_, _, _)
\* one_of(set).many(): the end of the longest run of atoms in set
ManyIn(text, pos, set) ==
    IF pos = NoMatch THEN NoMatch
    ELSE IF pos <= Len(text) /\ text[pos] \in set THEN ManyIn(text, pos + 1, set)
    ELSE pos

RECURSIVE ManyNotIn(_, _, _)
\* none_of(set).many()
ManyNotIn(text, pos, set) ==
    IF pos = NoMatch THEN NoMatch
    ELSE IF pos <= Len(text) /\ text[pos] \notin set THEN ManyNotIn(text, pos + 1, set)
    ELSE pos

\* spaces: a run of spaces and tabs, possibly empty
spaces(text, pos) == ManyIn(text, pos, SpaceChars)

\* whitespace: a run of whitespace characters, possibly empty
whitespace(text, pos) == ManyIn(text, pos, PyWhitespace)

\* keyword(string) = liberal(inexact(string)) = spaces >> inexact(string) << spaces
keyword(text, pos, str) == spaces(text, inexact(text, spaces(text, pos), str))

\* ---------------------------------------------------------- Grammar atoms

\* name = letter + alphanumeric.many()
name(text, pos) == ManyIn(text, one_of(text, pos, Letters), Letters \cup Digits)

\* +digit
digits1(text, pos) == ManyIn(text, one_of(text, pos, Digits), Digits)

RECURSIVE DigitsUpTo(_, _, _)
\* digit.between(0, n)
DigitsUpTo(text, pos, n) ==
    IF pos = NoMatch THEN NoMatch
    ELSE IF n > 0 /\ pos <= Len(text) /\ text[pos] \in Digits
    THEN DigitsUpTo(text, pos + 1, n - 1)
    ELSE pos

\* label = digit.between(1, 5)
label(text, pos) == DigitsUpTo(text, one_of(text, pos, Digits), 4)

\* integer = one_of("+-").optional() + +digit
integer(text, pos) == digits1(text, optional(pos, one_of(text, pos, {"+", "-"})))

\* logical = term(".true.") | term(".false.")
logical(text, pos) ==
    OrElse(inexact(text, pos, <<".","t","r","u","e",".">>),
           inexact(text, pos, <<".","f","a","l","s","e",".">>))

\* term(q) + none_of(q).many() + term(q)
quoted(text, pos, q) == one_of(text, ManyNotIn(text, one_of(text, pos, {q}), {q}), {q})

\* char_segment: a "..." segment or a '...' segment
char_segment(text, pos) == OrElse(quoted(text, pos, "\""), quoted(text, pos, "'"))

RECURSIVE ManySegments(_, _)
\* char_segment.many()
ManySegments(text, pos) ==
    IF pos = NoMatch THEN NoMatch
    ELSE optional(pos, ManySegments(text, char_segment(text, pos)))

\* character = +char_segment
character(text, pos) == ManySegments(text, char_segment(text, pos))

\* basic_real = sign? digit+ "." digit*
basic_real(text, pos) == ManyIn(text, one_of(text, integer(text, pos), {"."}), Digits)

\* single_exponent and double_exponent: one_of(letters) + integer
exponent_part(text, pos, letters) == integer(text, one_of(text, pos, letters))

\* p + exponent.optional(), for p ended at pos
optional_exponent(text, pos, letters) == optional(pos, exponent_part(text, pos, letters))

\* single = basic_real + single_exponent.optional() | integer + single_exponent
single(text, pos) ==
    OrElse(optional_exponent(text, basic_real(text, pos), {"e", "E"}),
           exponent_part(text, integer(text, pos), {"e", "E"}))

\* double = (basic_real | integer) + double_exponent
double(text, pos) ==
    exponent_part(text, OrElse(basic_real(text, pos), integer(text, pos)), {"d", "D"})

\* real = double | single
real(text, pos) == OrElse(double(text, pos), single(text, pos))

\* comment = exact("!") + none_of("\n").many()
comment(text, pos) == ManyNotIn(text, one_of(text, pos, {"!"}), {"\n"})

\* a match from pos that consumed something, else NoMatch
NonEmpty(pos, e) == IF e # NoMatch /\ e > pos THEN e ELSE NoMatch

\* the token alternative `spaces // tag_token("whitespace")`: a non-empty run
spaces_token(text, pos) == NonEmpty(pos, spaces(text, pos))

\* term(".xx.")
dotted(text, pos, word) == inexact(text, pos, <<".">> \o word \o <<".">>)

\* -------------------------------------------------------------- tokenizer

Alt(tag, end) == [tag |-> tag, end |-> end]

RECURSIVE FirstMatch(_, _)
\* a | b | ...: the first alternative that succeeds, in declared order
FirstMatch(alts, i) ==
    IF i > Len(alts) THEN Alt("fail", NoMatch)
    ELSE IF alts[i].end # NoMatch THEN alts[i] ELSE FirstMatch(alts, i + 1)

\* the first alternative, or the second when the first fails
OrElseAlt(a, b) == IF a.end # NoMatch THEN a ELSE b

\* the alternatives of single_token without its final wildcard fallback
single_token_no_wildcard(text, pos) ==
    FirstMatch(<<
        Alt("character", character(text, pos)),
        Alt("comment", comment(text, pos)),
        Alt("logical", logical(text, pos)),
        Alt("lt", dotted(text, pos, <<"l","t">>)),
        Alt("le", dotted(text, pos, <<"l","e">>)),
        Alt("eq", dotted(text, pos, <<"e","q">>)),
        Alt("ne", dotted(text, pos, <<"n","e">>)),
        Alt("gt", dotted(text, pos, <<"g","t">>)),
        Alt("ge", dotted(text, pos, <<"g","e">>)),
        Alt("not", dotted(text, pos, <<"n","o","t">>)),
        Alt("and", dotted(text, pos, <<"a","n","d">>)),
        Alt("or", dotted(text, pos, <<"o","r">>)),
        Alt("eqv", dotted(text, pos, <<"e","q","v">>)),
        Alt("neqv", dotted(text, pos, <<"n","e","q","v">>)),
        Alt("real", real(text, pos)),
        Alt("integer", integer(text, pos)),
        Alt("name", name(text, pos)),
        Alt("equals", exact(text, pos, <<"=">>, FALSE)),
        Alt("plus", exact(text, pos, <<"+">>, FALSE)),
        Alt("minus", exact(text, pos, <<"-">>, FALSE)),
        Alt("exponent", exact(text, pos, <<"*","*">>, FALSE)),
        Alt("times", exact(text, pos, <<"*">>, FALSE)),
        Alt("concat", exact(text, pos, <<"/","/">>, FALSE)),
        Alt("slash", exact(text, pos, <<"/">>, FALSE)),
        Alt("lparen", exact(text, pos, <<"(">>, FALSE)),
        Alt("rparen", exact(text, pos, <<")">>, FALSE)),
        Alt("dot", exact(text, pos, <<".">>, FALSE)),
        Alt("comma", exact(text, pos, <<",">>, FALSE)),
        Alt("dollar", exact(text, pos, <<"$">>, FALSE)),
        Alt("apostrophe", exact(text, pos, <<"'">>, FALSE)),
        Alt("quote", exact(text, pos, <<"\"">>, FALSE)),
        Alt("colon", exact(text, pos, <<":">>, FALSE)),
        Alt("langle", exact(text, pos, <<"<">>, FALSE)),
        Alt("rangle", exact(text, pos, <<">">>, FALSE)),
        Alt("whitespace", spaces_token(text, pos)) >>, 1)

\* the alternatives of single_token without the closing wildcard
single_token_without_wildcard(text, pos) == single_token_no_wildcard(text, pos)

\* Grammar.single_token: one token at pos, as [tag, end]
single_token(text, pos) ==
    OrElseAlt(single_token_no_wildcard(text, pos), Alt("unknown", wildcard(text, pos)))

Token(tag, value) == [tag |-> tag, value |-> value]

\* a token list with one more token in front
ConsToken(tok, rest) == [tokens |-> <<tok>> \o rest.tokens, end |-> rest.end]

RECURSIVE TokenizeFrom(_, _)
RECURSIVE TokenizeStep(_, _, _)

\* single_token.many() from pos: [tokens, end]
TokenizeFrom(text, pos) == TokenizeStep(text, pos, single_token(text, pos))

\* one round of many(): the token t found at pos, then the rest
TokenizeStep(text, pos, t) ==
    IF t.end = NoMatch THEN [tokens |-> <<>>, end |-> pos]
    ELSE ConsToken(Token(t.tag, SubSeq(text, pos, t.end - 1)), TokenizeFrom(text, t.end))

\* parser.parse(text): the parser's result r must end at the end of the text
WholeText(text, r) == [ok |-> r.end = Len(text) + 1, tokens |-> r.tokens]

\* Grammar.tokenizer.parse(text, start): every atom must be consumed, else Failure
tokenizer_parse(text, start) == WholeText(text, TokenizeFrom(text, start + 1))

\* the concatenation of the `value` fields of a token list
TokenValues(tokens) == Flatten([i \in 1..Len(tokens) |-> tokens[i].value])

\* the tokens of a list that have the tag 'name'
NamedTokens(tokens) == SelectSeq(tokens, LAMBDA t : t.tag = "name")

\* the lowered values of a token list
LoweredValues(tokens) == [i \in 1..Len(tokens) |-> Lower(tokens[i].value)]

\* [token.value.lower() for token in list_of_tokens if token.tag == 'name']
name_tokens(tokens) == LoweredValues(NamedTokens(tokens))

\* ------------------------------------------------- the tokenizer, driven

\* the longest text handed to the tokenizer
MaxTokLen == 3

\* the characters the texts are drawn from
TokChars == {"a", "E", "d", "1", ".", "+", "'", "!", " ", "\n", "*", "%"}


\* the caller extends the text by one character
TokType ==
    /\ Len(tk_text) < MaxTokLen
    /\ \E c \in TokChars : tk_text' = Append(tk_text, c)
    /\ tk_result' = [state |-> "idle"]
    /\ UNCHANGED <<main_vars, ln_vars>>

\* the outcome of tokenizer.parse as the caller sees it
TokOutcome(r) ==
    IF r.ok THEN [state |-> "tokens", tokens |-> r.tokens] ELSE [state |-> "Failure"]

\* Grammar.tokenizer.parse(tk_text)
TokParse ==
    /\ tk_result.state = "idle"
    /\ tk_result' = TokOutcome(tokenizer_parse(tk_text, 0))
    /\ UNCHANGED <<tk_text, main_vars, ln_vars>>

\* --------------------------------------------- Grammar.statements (table)

\* a keyword phrase: its words, and " ".join(words) as its canonical name
Phrase(n, ws) == [name |-> n, words |-> ws]

\* statements["control nonblock"]
control_nonblock ==
    << Phrase("go to", <<<<"g","o">>, <<"t","o">>>>),
       Phrase("call", <<<<"c","a","l","l">>>>),
       Phrase("return", <<<<"r","e","t","u","r","n">>>>),
       Phrase("continue", <<<<"c","o","n","t","i","n","u","e">>>>),
       Phrase("stop", <<<<"s","t","o","p">>>>),
       Phrase("pause", <<<<"p","a","u","s","e">>>>) >>

\* statements["control block"]
control_block ==
    << Phrase("if", <<<<"i","f">>>>),
       Phrase("else if", <<<<"e","l","s","e">>, <<"i","f">>>>),
       Phrase("else", <<<<"e","l","s","e">>>>),
       Phrase("end if", <<<<"e","n","d">>, <<"i","f">>>>),
       Phrase("do", <<<<"d","o">>>>),
       Phrase("end do", <<<<"e","n","d">>, <<"d","o">>>>) >>

\* statements["control"]
control == control_block \o control_nonblock

\* statements["io"]
io ==
    << Phrase("read", <<<<"r","e","a","d">>>>),
       Phrase("write", <<<<"w","r","i","t","e">>>>),
       Phrase("print", <<<<"p","r","i","n","t">>>>),
       Phrase("rewind", <<<<"r","e","w","i","n","d">>>>),
       Phrase("backspace", <<<<"b","a","c","k","s","p","a","c","e">>>>),
       Phrase("endfile", <<<<"e","n","d","f","i","l","e">>>>),
       Phrase("open", <<<<"o","p","e","n">>>>),
       Phrase("close", <<<<"c","l","o","s","e">>>>),
       Phrase("inquire", <<<<"i","n","q","u","i","r","e">>>>) >>

\* statements["assign"]
assign ==
    << Phrase("assign", <<<<"a","s","s","i","g","n">>>>) >>

\* statements["executable"]
executable == control \o assign \o io

\* statements["type"]
statements_type ==
    << Phrase("integer", <<<<"i","n","t","e","g","e","r">>>>),
       Phrase("real", <<<<"r","e","a","l">>>>),
       Phrase("double precision", <<<<"d","o","u","b","l","e">>, <<"p","r","e","c","i","s","i","o","n">>>>),
       Phrase("complex", <<<<"c","o","m","p","l","e","x">>>>),
       Phrase("logical", <<<<"l","o","g","i","c","a","l">>>>),
       Phrase("character", <<<<"c","h","a","r","a","c","t","e","r">>>>) >>

\* the phrases statements["specification"] adds to statements["type"]
specification_rest ==
    << Phrase("dimension", <<<<"d","i","m","e","n","s","i","o","n">>>>),
       Phrase("common", <<<<"c","o","m","m","o","n">>>>),
       Phrase("equivalence", <<<<"e","q","u","i","v","a","l","e","n","c","e">>>>),
       Phrase("implicit", <<<<"i","m","p","l","i","c","i","t">>>>),
       Phrase("parameter", <<<<"p","a","r","a","m","e","t","e","r">>>>),
       Phrase("external", <<<<"e","x","t","e","r","n","a","l">>>>),
       Phrase("intrinsic", <<<<"i","n","t","r","i","n","s","i","c">>>>),
       Phrase("save", <<<<"s","a","v","e">>>>) >>

\* statements["specification"]
specification == statements_type \o specification_rest

\* statements["top level"]
top_level ==
    << Phrase("program", <<<<"p","r","o","g","r","a","m">>>>),
       Phrase("end program", <<<<"e","n","d">>, <<"p","r","o","g","r","a","m">>>>),
       Phrase("function", <<<<"f","u","n","c","t","i","o","n">>>>),
       Phrase("end function", <<<<"e","n","d">>, <<"f","u","n","c","t","i","o","n">>>>),
       Phrase("subroutine", <<<<"s","u","b","r","o","u","t","i","n","e">>>>),
       Phrase("end subroutine", <<<<"e","n","d">>, <<"s","u","b","r","o","u","t","i","n","e">>>>),
       Phrase("block data", <<<<"b","l","o","c","k">>, <<"d","a","t","a">>>>),
       Phrase("end block data", <<<<"e","n","d">>, <<"b","l","o","c","k">>, <<"d","a","t","a">>>>),
       Phrase("end", <<<<"e","n","d">>>>) >>

\* statements["misc nonexec"]
misc_nonexec ==
    << Phrase("entry", <<<<"e","n","t","r","y">>>>),
       Phrase("data", <<<<"d","a","t","a">>>>),
       Phrase("format", <<<<"f","o","r","m","a","t">>>>) >>

\* statements["non-executable"]
non_executable == specification \o misc_nonexec \o top_level

\* the table with `end` tried first
statements_all_end_first ==
    <<Phrase("end", <<<<"e","n","d">>>>)>> \o executable \o non_executable

\* statements["all"], in the order RawLine tries the phrases
statements_all == executable \o non_executable

\* the canonical names of a list of phrases
Names(phrases) == {phrases[i].name : i \in 1..Len(phrases)}

\* ---------------------------------------------------------------- RawLine

\* the value of `label` when the attribute is absent
NoLabel == 0 - 1

RECURSIVE DecimalValue(_, _)
\* int(digits): the decimal value of the first n digits
DecimalValue(ds, n) ==
    IF n = 0 THEN 0 ELSE 10 * DecimalValue(ds, n - 1) + DigitValue[ds[n]]

\* the label matched between b and e, when the trailing spaces end the text at f
LabelValue(text, b, e, f) ==
    IF f # NoMatch /\ f = Len(text) + 1
    THEN [ok |-> TRUE, value |-> DecimalValue(SubSeq(text, b, e - 1), e - b)]
    ELSE [ok |-> FALSE, value |-> NoLabel]

\* the label that starts at b, with the spaces after it
LabelFrom(text, b, e) == LabelValue(text, b, e, spaces(text, e))

\* Grammar.label parsed without liberal: no blanks before the digits
parse_label_strict(statement_label) ==
    LabelFrom(statement_label, 1, label(statement_label, 1))

\* (liberal(Grammar.label) // int).parse(statement_label): [ok, value]
parse_label(statement_label) ==
    LabelFrom(statement_label, spaces(statement_label, 1),
              label(statement_label, spaces(statement_label, 1)))

RECURSIVE sum_parsers(_, _, _, _)
\* sum_parsers([keyword(w) for w in words]) run from pos: the end, or NoMatch
sum_parsers(text, pos, words, i) ==
    IF pos = NoMatch \/ i > Len(words) THEN pos
    ELSE sum_parsers(text, keyword(text, pos, words[i]), words, i + 1)

\* parser.scan(text): leading whitespace is skipped, then the parser runs
scan_start(text) == whitespace(text, 1)

\* check(words): the end of the phrase at the head of the code, or NoMatch
check(code, words) == sum_parsers(code, scan_start(code), words, 1)

RECURSIVE first_statement(_, _, _)
RECURSIVE statement_or_next(_, _, _, _)
\* for words in table: check(words), stopping at the first phrase that matches;
\* [name, end], with name "assignment" when none matches
first_statement(code, table, i) ==
    IF i > Len(table) THEN [name |-> "assignment", end |-> NoMatch]
    ELSE statement_or_next(code, table, i, check(code, table[i].words))

\* the try/except of check: StopIteration on a match at e, else the next phrase
statement_or_next(code, table, i, e) ==
    IF e # NoMatch THEN [name |-> table[i].name, end |-> e]
    ELSE first_statement(code, table, i + 1)

\* the line is a comment: matches(EOF | one_of("*c") | keyword("!"), lowered)
is_comment(lowered) ==
    \/ EOF(lowered, 1) # NoMatch
    \/ one_of(lowered, 1, {"*", "c"}) # NoMatch
    \/ keyword(lowered, 1, <<"!">>) # NoMatch

\* the continuation test with only the blank excluded in column 6
is_continuation_zero(lowered) ==
    /\ Len(lowered) > continuation_column
    /\ none_of(lowered, continuation_column + 1, {" "}) # NoMatch

\* len(lowered) > continuation_column and
\* matches(none_of("0 "), lowered, continuation_column)
is_continuation(lowered) ==
    /\ Len(lowered) > continuation_column
    /\ none_of(lowered, continuation_column + 1, {"0", " "}) # NoMatch

Raise(err) == [ok |-> FALSE, error |-> err]

Line(original, typ, code, tokens, tokens_after, cont, lbl, statement) ==
    [ok |-> TRUE,
     line |-> [kind |-> "raw_line", original |-> original, type |-> typ, code |-> code,
               tokens |-> tokens, tokens_after |-> tokens_after, cont |-> cont,
               label |-> lbl, statement |-> statement]]

\* the tokens after the statement keyword: tokenizer.parse(code, success.end),
\* or the line's tokens when no phrase matched
TokensAfter(code, toks, st) ==
    IF st.end = NoMatch THEN toks ELSE tokenizer_parse(code, st.end - 1)

\* the initial line, once its statement st and its tokens after it are known
InitialLine(line, code, toks, lbl, st, after) ==
    IF ~after.ok THEN Raise("Failure")
    ELSE Line(line, "initial", code, toks.tokens, after.tokens, <<>>, lbl, st.name)

\* RawLine.__init__ from `self.type = "initial"` on: the label, then the statement
Initial(line, code, toks, statement_label, lbl, st) ==
    IF Len(Strip(statement_label)) > 0 /\ ~lbl.ok THEN Raise("Failure")
    ELSE InitialLine(line, code, toks,
                     IF Len(Strip(statement_label)) > 0 THEN lbl.value ELSE NoLabel,
                     st, TokensAfter(code, toks, st))

\* RawLine.__init__ after the comment test, without the assertion
CodeLine_unchecked(line, lowered, code, toks) ==
    IF ~toks.ok THEN Raise("Failure")
    ELSE IF is_continuation(lowered)
    THEN Line(line, "continuation", code, toks.tokens, toks.tokens,
              Slice(line, continuation_column, margin_column), NoLabel, "")
    ELSE Initial(line, code, toks, SliceTo(lowered, continuation_column),
                 parse_label(SliceTo(lowered, continuation_column)),
                 first_statement(code, statements_all, 1))

\* RawLine.__init__ after the comment test: tokens, then continuation or initial
CodeLine(line, lowered, code, toks) ==
    IF ~toks.ok THEN Raise("Failure")
    ELSE IF is_continuation(lowered)
    THEN IF Len(Strip(SliceTo(lowered, continuation_column))) # 0
         THEN Raise("AssertionError")
         ELSE Line(line, "continuation", code, toks.tokens, toks.tokens,
                   Slice(line, continuation_column, margin_column), NoLabel, "")
    ELSE Initial(line, code, toks, SliceTo(lowered, continuation_column),
                 parse_label(SliceTo(lowered, continuation_column)),
                 first_statement(code, statements_all, 1))

\* RawLine.__init__ with lowered = line.rstrip().lower() and code = line[margin:]
Classify(line, lowered, code) ==
    IF is_comment(lowered)
    THEN Line(line, "comment", <<>>, <<>>, <<>>, <<>>, NoLabel, "")
    ELSE CodeLine(line, lowered, code, tokenizer_parse(code, 0))

\* RawLine.__init__(line): the constructed object, or the exception raised.
\* Attributes the constructor leaves unset are <<>>, NoLabel and "".
RawLine(line) == Classify(line, Lower(RStrip(line)), SliceFrom(line, margin_column))

\* ------------------------------------------------------------ LogicalLine

RECURSIVE JoinLines(_)
\* "\n".join(codes)
JoinLines(codes) ==
    IF codes = <<>> THEN <<>>
    ELSE IF Len(codes) = 1 THEN codes[1]
    ELSE codes[1] \o <<"\n">> \o JoinLines(Tail(codes))

\* LogicalLine.__init__ with its initial lines and its non-comment lines
LogicalLineOf(children, initial_line, code_lines) ==
    IF Len(initial_line) # 1 THEN Raise("AssertionError")
    ELSE [ok |-> TRUE,
          line |-> [kind |-> "logical_line",
                    children |-> children,
                    statement |-> initial_line[1].statement,
                    label |-> initial_line[1].label,
                    code |-> JoinLines([i \in 1..Len(code_lines) |-> code_lines[i].code]),
                    tokens |-> Flatten([i \in 1..Len(code_lines) |-> code_lines[i].tokens]),
                    tokens_after |->
                        Flatten([i \in 1..Len(code_lines) |-> code_lines[i].tokens_after])]]

\* LogicalLine.__init__(children)
LogicalLine(children) ==
    LogicalLineOf(children,
                  SelectSeq(children, LAMBDA l : l.type = "initial"),
                  SelectSeq(children, LAMBDA l : l.type # "comment"))

RECURSIVE ManyOfType(_, _, _)
\* of_type(t).many() over raw lines, for t in types: the end position
ManyOfType(lines, pos, types) ==
    IF pos <= Len(lines) /\ lines[pos].type \in types
    THEN ManyOfType(lines, pos + 1, types) ELSE pos

\* the values of many() with one more value in front
ConsLine(ll, rest) ==
    IF ~ll.ok THEN [values |-> <<>>, end |-> rest.end, ok |-> FALSE]
    ELSE [values |-> <<ll.line>> \o rest.values, end |-> rest.end, ok |-> rest.ok]

RECURSIVE logical_line_many(_, _)
RECURSIVE logical_line_at(_, _, _)
RECURSIVE logical_line_to(_, _, _)

\* logical_line.many() from pos: [values, end, ok]
logical_line_many(lines, pos) ==
    logical_line_at(lines, pos, ManyOfType(lines, pos, {"comment"}))

\* a logical line that a continuation line may begin
logical_line_at_continued(lines, pos, c) ==
    IF c > Len(lines) \/ lines[c].type \notin {"initial", "continuation"}
    THEN [values |-> <<>>, end |-> pos, ok |-> TRUE]
    ELSE logical_line_to(lines, pos, ManyOfType(lines, c + 1, {"comment", "continuation"}))

\* logical_line from pos, its leading comments ending before c
logical_line_at(lines, pos, c) ==
    IF c > Len(lines) \/ lines[c].type # "initial"
    THEN [values |-> <<>>, end |-> pos, ok |-> TRUE]
    ELSE logical_line_to(lines, pos, ManyOfType(lines, c + 1, {"comment", "continuation"}))

\* the logical line made of lines pos .. e-1, then the rest
logical_line_to(lines, pos, e) ==
    ConsLine(LogicalLine(SubSeq(lines, pos, e - 1)), logical_line_many(lines, e))

\* parser.parse(lines) for the result r of logical_line.many()
WholeLines(lines, r) ==
    IF ~r.ok THEN Raise("AssertionError")
    ELSE IF r.end # Len(lines) + 1 THEN Raise("Failure")
    ELSE [ok |-> TRUE, value |-> r.values]

\* parse_into_logical_lines(lines): the logical lines, or the exception raised
parse_into_logical_lines(lines) == WholeLines(lines, logical_line_many(lines, 1))

\* --------------------------------------------------------- block recognizer

OuterBlock(children, statement) ==
    [kind |-> "outer_block", statement |-> statement, children |-> children]

\* one_of_types(names) / none_of_types(names) on the item at pos
one_of_types(items, pos, names) == pos <= Len(items) /\ items[pos].statement \in names

none_of_types(items, pos, names) == pos <= Len(items) /\ items[pos].statement \notin names

\* the statements of non_block
non_block_names == Names(io \o assign \o specification \o misc_nonexec \o control_nonblock)

\* the guard of if_block that lets every `if` line begin a block
new_style_if_always(line) == TRUE

\* new_style_if(line): some name token after the keyword is `then`
new_style_if(line) ==
    \E t \in {line.tokens_after[i] : i \in 1..Len(line.tokens_after)} :
        t.tag = "name" /\ Lower(t.value) = <<"t","h","e","n">>

\* the guard of do_block that lets every `do` line begin a block
new_style_do_always(line) == TRUE

\* new_style_do(line): not matches(keyword("do") + liberal(Grammar.label), code.lower())
new_style_do(line) ==
    label(Lower(line.code),
          spaces(Lower(line.code), keyword(Lower(line.code), 1, <<"d","o">>))) = NoMatch

\* the values of many() with one more value in front
ConsValue(v, rest) == [values |-> <<v>> \o rest.values, end |-> rest.end]

RECURSIVE inner_many(_, _, _)
RECURSIVE inner_or_do(_, _, _, _)
RECURSIVE inner_or_if(_, _, _, _)
RECURSIVE do_block(_, _)
RECURSIVE do_block_end(_, _, _)
RECURSIVE if_block(_, _)
RECURSIVE if_block_end(_, _, _)
RECURSIVE InnerBlock(_)
RECURSIVE section_many(_, _)
RECURSIVE section_else(_, _, _)
RECURSIVE section_guard(_, _, _, _, _)

\* (non_block | do_block | if_block | <last>).many() from pos, where <last> is
\* none_of_types(stops), or wildcard when stops is empty: [values, end]
inner_many(items, pos, stops) ==
    IF pos > Len(items) THEN [values |-> <<>>, end |-> pos]
    ELSE IF items[pos].statement \in non_block_names
    THEN ConsValue(items[pos], inner_many(items, pos + 1, stops))
    ELSE inner_or_do(items, pos, stops, do_block(items, pos))

\* ... | do_block | ...: d is do_block at pos
inner_or_do(items, pos, stops, d) ==
    IF d.ok THEN ConsValue(d.value, inner_many(items, d.end, stops))
    ELSE inner_or_if(items, pos, stops, if_block(items, pos))

\* ... | if_block | <last>: f is if_block at pos
inner_or_if(items, pos, stops, f) ==
    IF f.ok THEN ConsValue(f.value, inner_many(items, f.end, stops))
    ELSE IF items[pos].statement \notin stops
    THEN ConsValue(items[pos], inner_many(items, pos + 1, stops))
    ELSE [values |-> <<>>, end |-> pos]

\* InnerBlock.__init__(logical_lines): children = block_or_line.many().parse(...)
InnerBlock(items) ==
    [kind |-> "inner_block", children |-> inner_many(items, 1, {}).values]

\* inner_block_or_empty(list_of_lines)
inner_block_or_empty(items) == IF items # <<>> THEN <<InnerBlock(items)>> ELSE <<>>

\* do_block at pos: [ok, value, end]
do_block(items, pos) ==
    IF ~(one_of_types(items, pos, {"do"}) /\ new_style_do(items[pos]))
    THEN [ok |-> FALSE]
    ELSE do_block_end(items, pos, inner_many(items, pos + 1, {"end do"}))

\* begin + inner + end, for the inner lines `body` of the do_block begun at pos
do_block_end(items, pos, body) ==
    IF ~one_of_types(items, body.end, {"end do"}) THEN [ok |-> FALSE]
    ELSE [ok |-> TRUE,
          value |-> OuterBlock(<<items[pos], InnerBlock(body.values), items[body.end]>>,
                               "do_block"),
          end |-> body.end + 1]

\* the values of many() with the values vs in front
PrependValues(vs, rest) == [values |-> vs \o rest.values, end |-> rest.end]

\* section.many() // concat from pos: [values, end]
section_many(items, pos) ==
    section_else(items, pos, inner_many(items, pos, {"end if", "else if", "else"}))

\* one section from pos: its inner lines `body`, then else_or_else_if.optional()
section_else(items, pos, body) ==
    section_guard(items, pos, body.end, inner_block_or_empty(body.values),
                  IF one_of_types(items, body.end, {"else if", "else"})
                  THEN <<items[body.end]>> ELSE <<>>)

\* the section's guard (l != []), then the sections after it
section_guard(items, pos, e, body_block, else_line) ==
    IF body_block \o else_line = <<>> THEN [values |-> <<>>, end |-> pos]
    ELSE PrependValues(body_block \o else_line, section_many(items, e + Len(else_line)))

\* if_block at pos: [ok, value, end]
if_block(items, pos) ==
    IF ~(one_of_types(items, pos, {"if"}) /\ new_style_if(items[pos]))
    THEN [ok |-> FALSE]
    ELSE if_block_end(items, pos, section_many(items, pos + 1))

\* an if_block built without its end if line
if_block_end_dropped(items, pos, sections) ==
    IF ~one_of_types(items, sections.end, {"end if"}) THEN [ok |-> FALSE]
    ELSE [ok |-> TRUE,
          value |-> OuterBlock(<<items[pos]>> \o sections.values, "if_block"),
          end |-> sections.end + 1]

\* begin + sections + end, for the sections of the if_block begun at pos
if_block_end(items, pos, sections) ==
    IF ~one_of_types(items, sections.end, {"end if"}) THEN [ok |-> FALSE]
    ELSE [ok |-> TRUE,
          value |-> OuterBlock(<<items[pos]>> \o sections.values \o
                               <<items[sections.end]>>, "if_block"),
          end |-> sections.end + 1]

\* ------------------------------------------------ the source files explored

\* physical lines of fixed-form source text
L_end == <<" "," "," "," "," "," ","e","n","d","\n">>
L_if_then == <<" "," "," "," "," "," ","i","f","(","x",")","t","h","e","n","\n">>
L_if_arith == <<" "," "," "," "," "," ","i","f","(","x",")","1",",","2",",","3","\n">>
L_else == <<" "," "," "," "," "," ","e","l","s","e","\n">>
L_end_if == <<" "," "," "," "," "," ","e","n","d"," ","i","f","\n">>
L_assign == <<" "," "," "," "," "," ","x","=","1","\n">>
L_do == <<" "," "," "," "," "," ","d","o"," ","i","=","1",",","2","\n">>
L_do_label == <<" "," "," "," "," "," ","d","o"," ","1","0"," ","i","=","1",",","2","\n">>
L_end_do == <<" "," "," "," "," "," ","e","n","d"," ","d","o","\n">>
L_label == <<" "," "," ","1","0"," ","c","o","n","t","i","n","u","e","\n">>
L_col6_zero == <<" "," "," "," "," ","0","x","=","1","\n">>
L_comment_C == <<"C"," ","x","\n">>
L_comment_c == <<"c"," ","z","\n">>
L_comment_star == <<"*"," ","y","\n">>
L_comment_bang == <<"!"," ","w","\n">>
L_blank == <<"\n">>
L_cont == <<" "," "," "," "," ","&","+","1","\n">>
L_short == <<"1","\n">>
L_program == <<" "," "," "," "," "," ","p","r","o","g","r","a","m"," ","p","\n">>
L_function == <<" "," "," "," "," "," ","f","u","n","c","t","i","o","n"," ","f","(","a",")","\n">>
L_end_function == <<" "," "," "," "," "," ","e","n","d"," ","f","u","n","c","t","i","o","n","\n">>
L_end_program == <<" "," "," "," "," "," ","e","n","d"," ","p","r","o","g","r","a","m","\n">>

L_label_only == <<" "," "," ","1","0"," ","\n">>
L_spaces == <<" "," "," ","\n">>
L_goto == <<" "," "," "," "," "," ","g","o","t","o"," ","1","0","\n">>
L_format == <<" "," "," ","1","0"," ","f","o","r","m","a","t","(","i","2",")","\n">>
L_integer == <<" "," "," "," "," "," ","i","n","t","e","g","e","r"," ","x","\n">>
L_double == <<" "," "," "," "," "," ","d","o","u","b","l","e"," ","p","r","e","c","i","s","i","o","n"," ","z","\n">>
L_implicit == <<" "," "," "," "," "," ","i","m","p","l","i","c","i","t"," ","n","o","n","e","\n">>
L_use == <<" "," "," "," "," "," ","y","=","a","b","s","(","x",")","+","z","\n">>

\* the vocabularies a source file is written in: every file explored takes
\* all its lines from one of them
Pools ==
    { {L_if_then, L_if_arith, L_else, L_end_if, L_end},
      {L_do, L_end_do, L_if_then, L_end_if, L_end},
      {L_label, L_comment_C, L_cont, L_end},
      {L_comment_C, L_comment_c, L_comment_star, L_comment_bang, L_end},
      {L_program, L_end_program, L_assign, L_end},
      {L_function, L_end_function, L_end_program, L_end},
      {L_label_only, L_spaces, L_assign, L_end},
      {L_col6_zero, L_short, L_blank, L_end},
      {L_label, L_do_label, L_do, L_end_do, L_end},
      {L_format, L_label, L_goto, L_end},
      {L_integer, L_double, L_implicit, L_use, L_end} }

PoolLines == UNION Pools

\* the longest source file explored, in physical lines
MaxLines == 5

\* RawLine(line) for every line of the vocabularies
RawLineOf == [l \in PoolLines |-> RawLine(l)]

\* ------------------------------------------------------------ parse_source

RECURSIVE ManyNoneOf(_, _, _)
\* none_of_types(names).many(): the end position
ManyNoneOf(items, pos, names) ==
    IF none_of_types(items, pos, names) THEN ManyNoneOf(items, pos + 1, names) ELSE pos

\* first_line + mid_lines + last_line with the InnerBlock left out of an empty body
top_level_lines_or_empty(items, first_line, mid, last, end_kind, block_statement) ==
    IF ~one_of_types(items, last, {end_kind, "end"}) THEN [ok |-> FALSE]
    ELSE [ok |-> TRUE,
          value |-> OuterBlock(first_line \o
                               inner_block_or_empty(SubSeq(items, mid, last - 1)) \o
                               <<items[last]>>, block_statement),
          end |-> last + 1]

\* first_line + mid_lines + last_line, for the lines mid .. last-1 between them
top_level_lines(items, first_line, mid, last, end_kind, block_statement) ==
    IF ~one_of_types(items, last, {end_kind, "end"}) THEN [ok |-> FALSE]
    ELSE [ok |-> TRUE,
          value |-> OuterBlock(first_line \o
                               <<InnerBlock(SubSeq(items, mid, last - 1))>> \o
                               <<items[last]>>, block_statement),
          end |-> last + 1]

\* top_level_block(kind, first_line_optional) at pos: [ok, value, end]; kind is
\* " ".join(kind), end_kind " ".join(["end"] + kind) and block_statement
\* "_".join(kind + ["block"])
top_level_block(items, pos, kind, end_kind, block_statement, first_line_optional) ==
    IF one_of_types(items, pos, {kind})
    THEN top_level_lines(items, <<items[pos]>>, pos + 1,
                         ManyNoneOf(items, pos + 1, Names(top_level)),
                         end_kind, block_statement)
    ELSE IF first_line_optional
    THEN top_level_lines(items, <<>>, pos, ManyNoneOf(items, pos, Names(top_level)),
                         end_kind, block_statement)
    ELSE [ok |-> FALSE]

\* a | b over parse results
OrElseBlock(a, b) == IF a.ok THEN a ELSE b

\* program_unit = function | subroutine | block_data | main_program
program_unit(items, pos) ==
    OrElseBlock(top_level_block(items, pos, "function", "end function",
                                "function_block", FALSE),
    OrElseBlock(top_level_block(items, pos, "subroutine", "end subroutine",
                                "subroutine_block", FALSE),
    OrElseBlock(top_level_block(items, pos, "block data", "end block data",
                                "block_data_block", FALSE),
                top_level_block(items, pos, "program", "end program",
                                "program_block", TRUE))))

RECURSIVE program_unit_many(_, _)
RECURSIVE program_unit_then(_, _, _)

\* program_unit.many() from pos: [values, end]
program_unit_many(items, pos) == program_unit_then(items, pos, program_unit(items, pos))

\* one round of many(): the unit u found at pos, then the units after it
program_unit_then(items, pos, u) ==
    IF ~u.ok THEN [values |-> <<>>, end |-> pos]
    ELSE ConsValue(u.value, program_unit_many(items, u.end))

\* (+program_unit // outer_block("source_file")).parse(lines), for the result r
\* of program_unit.many()
SourceFile(lines, r) ==
    IF r.values = <<>> \/ r.end # Len(lines) + 1 THEN Raise("Failure")
    ELSE [ok |-> TRUE, value |-> OuterBlock(r.values, "source_file")]

\* parse_source(logical_lines): the source_file block, or Failure
parse_source(lines) == SourceFile(lines, program_unit_many(lines, 1))

\* ---------------------------------------------------------------- visitors

RECURSIVE accept(_)
\* node.accept(Visitor()) with raw_line left abstract: the raw lines in the
\* order the default logical_line / inner_block / outer_block visit them
accept(node) ==
    IF node.kind = "raw_line" THEN <<node>>
    ELSE Flatten([i \in 1..Len(node.children) |-> accept(node.children[i])])

\* Visitor.raw_line(line)
Visitor_raw_line(line) == line.original

\* "".join of Visitor.raw_line over the lines visited
JoinOriginals(ls) == Flatten([i \in 1..Len(ls) |-> Visitor_raw_line(ls[i])])

\* plain(doc) = Visitor().top_level(doc)
plain(doc) == JoinOriginals(accept(doc))

DigitChar == [d \in 0..9 |-> CHOOSE c \in Digits : DigitValue[c] = d]

RECURSIVE IntToStr(_)
\* str(n) for n >= 0
IntToStr(n) == IF n < 10 THEN <<DigitChar[n]>> ELSE IntToStr(n \div 10) \o <<DigitChar[n % 10]>>

\* str is padded on the right with spaces to width
PadRight(str, width) == str \o Repeat(" ", width - Len(str))

\* ("{:<" + str(width) + "}").format(n): left-aligned, padded with spaces
FormatLeft(n, width) == PadRight(IntToStr(n), width)

\* Reconstruct.raw_line(line)
Reconstruct_raw_line(line) ==
    IF line.type = "comment" THEN line.original
    ELSE (IF line.type = "continuation"
          THEN Repeat(" ", continuation_column) \o line.cont
          ELSE IF line.label # NoLabel THEN FormatLeft(line.label, margin_column)
          ELSE Repeat(" ", margin_column))
         \o TokenValues(line.tokens)

\* "".join of Reconstruct.raw_line over the lines visited
JoinReconstructed(ls) == Flatten([i \in 1..Len(ls) |-> Reconstruct_raw_line(ls[i])])

\* reconstruct(unit)
reconstruct(doc) == JoinReconstructed(accept(doc))

\* change_comment(line) of new_comments
change_comment(line) ==
    IF one_of(line.original, 1, {"c", "*"}) # NoMatch
    THEN RawLine(<<"!">> \o SliceFrom(line.original, 1)).line
    ELSE line

\* upgrade = of_type("comment") // change_comment | wildcard, on every line
upgrade_many(lines) ==
    [i \in 1..Len(lines) |->
        IF lines[i].type = "comment" THEN change_comment(lines[i]) ELSE lines[i]]

\* new_comments(raw_lines)
new_comments(lines) == plain(OuterBlock(upgrade_many(lines), "source"))

\* empty in remove_blanks: matches(whitespace << EOF, l.original)
empty(l) == EOF(l.original, whitespace(l.original, 1)) # NoMatch

\* empty.many() that stops at once
ManyEmpty_none(items, pos) == pos

RECURSIVE ManyEmpty(_, _)
\* empty.many() from pos: the end of the run of empty lines
ManyEmpty(items, pos) ==
    IF pos <= Len(items) /\ empty(items[pos]) THEN ManyEmpty(items, pos + 1) ELSE pos

RECURSIVE remove_many(_, _)
\* remove = (+empty // (lambda ls: RawLine("\n")) | wildcard).many() from pos
remove_many(items, pos) ==
    IF pos > Len(items) THEN <<>>
    ELSE IF empty(items[pos])
    THEN <<RawLine(<<"\n">>).line>> \o remove_many(items, ManyEmpty(items, pos + 1))
    ELSE <<items[pos]>> \o remove_many(items, pos + 1)

\* remove_blanks(raw_lines)
remove_blanks(lines) == plain(OuterBlock(remove_many(lines, 1), "source"))

\* ------------------------------------------------------------------ indent

\* the default of indent's indent_width parameter, which main leaves alone
indent_width == 4

\* Indent.raw_line(line) with self.current = current
Indent_raw_line(line, current) ==
    IF line.type = "comment" THEN line.original
    ELSE SliceTo(line.original, margin_column)
         \o Repeat(" ", IF line.type = "continuation" THEN current + indent_width
                        ELSE current)
         \o LStrip(line.code)

\* what the visitor has emitted, with the lines of r in front
EmitBefore(r, rest) == [emitted |-> r.emitted \o rest.emitted, current |-> rest.current]

\* Indent.inner_block without the decrement after the children
Indent_leave_kept(r) == r

\* Indent.inner_block: self.current -= indent_width after the children
Indent_leave(r) == [emitted |-> r.emitted, current |-> r.current - indent_width]

RECURSIVE Indent_accept(_, _)
RECURSIVE Indent_children(_, _, _)
RECURSIVE Indent_rest(_, _, _)

\* node.accept(Indent()) entered with self.current = current: the lines
\* emitted, each with the counter it was emitted at, and the counter afterwards
Indent_accept(node, current) ==
    IF node.kind = "raw_line"
    THEN [emitted |-> <<[text |-> Indent_raw_line(node, current),
                         line |-> node, current |-> current]>>,
          current |-> current]
    ELSE IF node.kind = "inner_block"
    THEN Indent_leave(Indent_children(node.children, 1, current + indent_width))
    ELSE Indent_children(node.children, 1, current)

\* concat([b.accept(self) for b in children]) from child i on
Indent_children(children, i, current) ==
    IF i > Len(children) THEN [emitted |-> <<>>, current |-> current]
    ELSE Indent_rest(children, i, Indent_accept(children[i], current))

\* the children after child i, whose visit gave r
Indent_rest(children, i, r) == EmitBefore(r, Indent_children(children, i + 1, r.current))

\* "".join of the texts emitted
JoinEmitted(es) == Flatten([i \in 1..Len(es) |-> es[i].text])

\* indent(doc): Indent() starts with self.current = 1
indent(doc) == JoinEmitted(Indent_accept(doc, 1).emitted)

\* ---------------------------------------------------------------- a file

RECURSIVE LineEnd(_, _)
\* the end of the line of a text that begins at i
LineEnd(t, i) == IF i >= Len(t) \/ t[i] = "\n" THEN i ELSE LineEnd(t, i + 1)

RECURSIVE FileLines(_)
RECURSIVE FileLinesAfter(_, _)
\* for line in input_file: the lines of a text, each with its newline
FileLines(t) == IF t = <<>> THEN <<>> ELSE FileLinesAfter(t, LineEnd(t, 1))

\* the line that ends at k, then the lines after it
FileLinesAfter(t, k) == <<SubSeq(t, 1, k)>> \o FileLines(SubSeq(t, k + 1, Len(t)))

\* [RawLine(line) for line in input_file], or the first exception raised
RawLinesOf(rs) ==
    IF \E i \in 1..Len(rs) : ~rs[i].ok
    THEN Raise(rs[CHOOSE i \in 1..Len(rs) : ~rs[i].ok /\ \A j \in 1..(i - 1) : rs[j].ok].error)
    ELSE [ok |-> TRUE, value |-> [i \in 1..Len(rs) |-> rs[i].line]]

\* read_file on a file that holds the text
read_file(text) == RawLinesOf([i \in 1..Len(FileLines(text)) |-> RawLine(FileLines(text)[i])])

\* f(r.value), unless r is an exception
Then(r, f(_)) == IF r.ok THEN f(r.value) ELSE r

\* parse_file on a file that holds the text
parse_file(text) == Then(Then(read_file(text), parse_into_logical_lines), parse_source)

\* indent(parsed) at the end of main
IndentValue(doc) == [ok |-> TRUE, value |-> indent(doc)]

\* main with the task indent on a file that holds the text
indent_file(text) == Then(parse_file(text), IndentValue)

\* --------------------------------------------------------------- analyze

\* Grammar.intrinsics
intrinsics ==
    { <<"a","b","s">>, <<"a","c","o","s">>, <<"a","i","m","a","g">>,
      <<"a","i","n","t">>, <<"a","l","o","g">>, <<"a","l","o","g","1","0">>,
      <<"a","m","a","x","1","0">>, <<"a","m","a","x","0">>, <<"a","m","a","x","1">>,
      <<"a","m","i","n","0">>, <<"a","m","i","n","1">>, <<"a","m","o","d">>,
      <<"a","n","i","n","t">>, <<"a","s","i","n">>, <<"a","t","a","n">>,
      <<"a","t","a","n","2">>, <<"c","a","b","s">>, <<"c","c","o","s">>,
      <<"c","h","a","r">>, <<"c","l","o","g">>, <<"c","m","p","l","x">>,
      <<"c","o","n","j","g">>, <<"c","o","s">>, <<"c","o","s","h">>,
      <<"c","s","i","n">>, <<"c","s","q","r","t">>, <<"d","a","b","s">>,
      <<"d","a","c","o","s">>, <<"d","a","s","i","n">>, <<"d","a","t","a","n">>,
      <<"d","a","t","a","n","2">>, <<"d","b","l","e">>, <<"d","c","o","s">>,
      <<"d","c","o","s","h">>, <<"d","d","i","m">>, <<"d","e","x","p">>,
      <<"d","i","m">>, <<"d","i","n","t">>, <<"d","i","n","t">>, <<"d","l","o","g">>,
      <<"d","l","o","g","1","0">>, <<"d","m","a","x","1">>, <<"d","m","i","n","1">>,
      <<"d","m","o","d">>, <<"d","n","i","n","t">>, <<"d","p","r","o","d">>,
      <<"d","r","e","a","l">>, <<"d","s","i","g","n">>, <<"d","s","i","n">>,
      <<"d","s","i","n","h">>, <<"d","s","q","r","t">>, <<"d","t","a","n">>,
      <<"d","t","a","n","h">>, <<"e","x","p">>, <<"f","l","o","a","t">>,
      <<"i","a","b","s">>, <<"i","c","h","a","r">>, <<"i","d","i","m">>,
      <<"i","d","i","n","t">>, <<"i","d","n","i","n","t">>, <<"i","f","l","x">>,
      <<"i","n","d","e","x">>, <<"i","n","t">>, <<"i","s","i","g","n">>,
      <<"l","e","n">>, <<"l","g","e">>, <<"l","g","t">>, <<"l","l","e">>,
      <<"l","l","t">>, <<"l","o","g">>, <<"l","o","g","1","0">>, <<"m","a","x">>,
      <<"m","a","x","0">>, <<"m","a","x","1">>, <<"m","i","n">>, <<"m","i","n","0">>,
      <<"m","i","n","1">>, <<"m","o","d">>, <<"n","i","n","t">>, <<"r","e","a","l">>,
      <<"s","i","g","n">>, <<"s","i","n">>, <<"s","i","n","h">>, <<"s","n","g","l">>,
      <<"s","q","r","t">>, <<"t","a","n">>, <<"t","a","n","h">>,
      <<"m","a","t","m","u","l">>, <<"c","y","c","l","e">> }

\* the elements of a list
Elements(s) == {s[i] : i \in 1..Len(s)}

RECURSIVE accept_lines(_)
\* node.accept(v) for a visitor v that overrides logical_line only: the logical
\* lines in the order the default inner_block / outer_block visit them, so that
\* the k-th of them is visited with current_line = k
accept_lines(node) ==
    IF node.kind = "logical_line" THEN <<node>>
    ELSE Flatten([i \in 1..Len(node.children) |-> accept_lines(node.children[i])])

\* mentioned_names(line)
mentioned_names(line) == name_tokens(line.tokens_after)

\* int(value) of an `integer` token: an optional sign, then digits
IntOf(value) ==
    IF value[1] = "-" THEN 0 - DecimalValue(Tail(value), Len(value) - 1)
    ELSE IF value[1] = "+" THEN DecimalValue(Tail(value), Len(value) - 1)
    ELSE DecimalValue(value, Len(value))

\* [int(token.value) for token in line.tokens_after if token.tag == 'integer']
int_tokens(line) ==
    {IntOf(line.tokens_after[i].value) :
        i \in {j \in 1..Len(line.tokens_after) : line.tokens_after[j].tag = "integer"}}

\* the lines numbered by current_line, as Label.logical_line sees them
Label_lines(lines) ==
    [k \in 1..Len(lines) |->
        [decl_line |-> k, lbl |-> lines[k].label, statement |-> lines[k].statement]]

\* main_block.accept(Label()): (current_line, line.label) of the lines that are
\* not format lines and have the attribute label
Label_accept(lines) ==
    SelectSeq(Label_lines(lines), LAMBDA e : e.statement # "format" /\ e.lbl # NoLabel)

\* main_block.accept(Occurrences()) for lbl: the line numbers appended
Label_occurrences(lines, lbl) ==
    SelectSeq([k \in 1..Len(lines) |-> k], LAMBDA k : lbl \in int_tokens(lines[k]))

RECURSIVE Label_collect(_, _, _)
\* occur_dict after the first i rounds of the loop that collects occurrences
Label_collect(labels, i, lines) ==
    IF i = 0 THEN [l \in {labels[k].lbl : k \in 1..Len(labels)} |-> <<>>]
    ELSE [Label_collect(labels, i - 1, lines) EXCEPT
             ![labels[i].lbl] = @ \o Label_occurrences(lines, labels[i].lbl)]

RECURSIVE InsertSorted(_, _)
\* x put in its place in a sorted list
InsertSorted(x, s) ==
    IF s = <<>> \/ x <= Head(s) THEN <<x>> \o s
    ELSE <<Head(s)>> \o InsertSorted(x, Tail(s))

RECURSIVE sorted(_)
\* sorted(s) for a list of numbers
sorted(s) == IF s = <<>> THEN <<>> ELSE InsertSorted(Head(s), sorted(Tail(s)))

\* the loop that adds the declaration lines, left out
Label_declare_skipped(labels, i, occur_dict) == occur_dict

RECURSIVE Label_declare(_, _, _)
\* occur_dict[lbl] = sorted(occur_dict[lbl] + [decl_line]) from entry i on
Label_declare(labels, i, occur_dict) ==
    IF i > Len(labels) THEN occur_dict
    ELSE Label_declare(labels, i + 1,
             [occur_dict EXCEPT ![labels[i].lbl] = sorted(@ \o <<labels[i].decl_line>>)])

Interval(var, start, end) == [var |-> var, start |-> start, end |-> end]

\* make_timeline(occur_dict): the rows of the timeline; the order sorted() gives
\* rows that start on the same line follows the dictionary and is left open
make_timeline(occur_dict) ==
    {Interval(var, occur_dict[var][1], occur_dict[var][Len(occur_dict[var])]) :
        var \in {v \in DOMAIN occur_dict : occur_dict[v] # <<>>}}

\* analyze_labels, for the lines of the block and the labels found on them
Label_timeline(lines, labels) ==
    make_timeline(Label_declare(labels, 1, Label_collect(labels, Len(labels), lines)))

\* analyze_labels(main_block), for the lines main_block.accept visits: the
\* timeline handed to draw_timeline
analyze_labels_of(lines) == Label_timeline(lines, Label_accept(lines))

\* specs in analyze_variables
specs == Names(specification)

\* keywords in analyze_variables
keywords ==
    UNION {Elements(statements_all[i].words) : i \in 1..Len(statements_all)}
    \cup {<<"t","h","e","n">>, <<"n","o","n","e">>}

\* Variables.logical_line
Variables_logical_line(line) ==
    IF line.statement = "format" THEN <<>> ELSE mentioned_names(line)

\* Locals.logical_line
Locals_logical_line(line) ==
    IF line.statement \notin specs THEN <<>>
    ELSE IF line.statement = "implicit" /\ mentioned_names(line) = <<<<"n","o","n","e">>>>
    THEN <<>>
    ELSE mentioned_names(line)

\* set(main_block.accept(Variables()))
unique_names(lines) ==
    UNION {Elements(Variables_logical_line(lines[k])) : k \in 1..Len(lines)}

\* set(main_block.accept(Locals()))
local_variables(lines) ==
    UNION {Elements(Locals_logical_line(lines[k])) : k \in 1..Len(lines)}

\* unaccounted_for in analyze_variables
unaccounted_for(unit_names, formal_params, lines) ==
    unique_names(lines)
    \ (local_variables(lines) \cup Elements(formal_params) \cup keywords
       \cup intrinsics \cup Elements(unit_names))

\* main_block.accept(Occurrences(var)): the line numbers appended for var
Variable_occurrences(lines, var) ==
    SelectSeq([k \in 1..Len(lines) |-> k],
              LAMBDA k : /\ lines[k].statement \notin specs
                         /\ var \in Elements(name_tokens(lines[k].tokens_after)))

\* occur_dict of analyze_variables over the names of concern
Variable_collect(lines, concern) ==
    [var \in concern |-> Variable_occurrences(lines, var)]

\* what analyze_variables reports, for the names unaccounted for and of concern
Variables_report(lines, unaccounted, occur_dict) ==
    [unaccounted_for |-> unaccounted,
     never_occurred |-> {var \in DOMAIN occur_dict : occur_dict[var] = <<>>},
     timeline |-> make_timeline(occur_dict)]

\* analyze_variables once unaccounted_for is known
Variables_concern(formal_params, lines, unaccounted) ==
    Variables_report(lines, unaccounted,
        Variable_collect(lines, local_variables(lines) \cup Elements(formal_params)
                                \cup unaccounted))

\* analyze_variables(unit_names, formal_params, main_block) on the block's lines
analyze_variables(unit_names, formal_params, lines) ==
    Variables_concern(formal_params, lines,
                      unaccounted_for(unit_names, formal_params, lines))

\* the value of program_name when it is None
None == <<>>

\* tokens in analyze_header: tokens_after without whitespace and comments
header_tokens(first) ==
    SelectSeq(first.tokens_after, LAMBDA t : t.tag # "whitespace" /\ t.tag # "comment")

\* analyze_header(unit) when the first child is a LogicalLine
header_line(unit, first, tokens) ==
    IF Len(tokens) = 0 \/ tokens[1].tag # "name" \/ Len(unit.children) # 3
    THEN Raise("AssertionError")
    ELSE [ok |-> TRUE,
          value |-> [statement |-> first.statement, program_name |-> tokens[1].value,
                     formal_params |-> name_tokens(Tail(tokens)),
                     main_block |-> unit.children[2]]]

\* analyze_header(unit)
analyze_header(unit) ==
    IF unit.children[1].kind = "logical_line"
    THEN header_line(unit, unit.children[1], header_tokens(unit.children[1]))
    ELSE IF Len(unit.children) # 2 THEN Raise("AssertionError")
    ELSE [ok |-> TRUE,
          value |-> [statement |-> "program", program_name |-> None,
                     formal_params |-> <<>>, main_block |-> unit.children[1]]]

\* analyze_unit past the header h, on the lines of its main block
unit_report(h, unit_names, lines) ==
    [statement |-> h.statement, program_name |-> h.program_name,
     formal_params |-> h.formal_params,
     labels |-> analyze_labels_of(lines),
     variables |-> analyze_variables(unit_names, h.formal_params, lines)]

\* analyze_unit(unit, unit_names), given what analyze_header returned
analyze_unit_with(h, unit_names) ==
    IF ~h.ok THEN h
    ELSE [ok |-> TRUE, value |-> unit_report(h.value, unit_names, accept_lines(h.value.main_block))]

\* analyze_unit(unit, unit_names)
analyze_unit(unit, unit_names) == analyze_unit_with(analyze_header(unit), unit_names)

\* the first exception of a list of results, or the list of their values
AllOf(rs) ==
    IF \E i \in 1..Len(rs) : ~rs[i].ok
    THEN Raise(rs[CHOOSE i \in 1..Len(rs) : ~rs[i].ok /\ \A j \in 1..(i - 1) : rs[j].ok].error)
    ELSE [ok |-> TRUE, value |-> [i \in 1..Len(rs) |-> rs[i].value]]

\* collect_unit_names, one unit: mentioned_names(first)[0] of a header line
unit_name(unit) ==
    IF unit.children[1].kind # "logical_line" THEN [ok |-> TRUE, value |-> <<>>]
    ELSE IF mentioned_names(unit.children[1]) = <<>> THEN Raise("IndexError")
    ELSE [ok |-> TRUE, value |-> <<mentioned_names(unit.children[1])[1]>>]

\* unit_names, from the per-unit results
unit_names_of(r) == IF r.ok THEN [ok |-> TRUE, value |-> Flatten(r.value)] ELSE r

\* collect_unit_names(source)
collect_unit_names(src) ==
    unit_names_of(AllOf([i \in 1..Len(src.children) |-> unit_name(src.children[i])]))

\* the report of analyze, from the names and the per-unit results
analyze_report(unit_names, r) ==
    IF r.ok THEN [ok |-> TRUE, value |-> [unit_names |-> unit_names, units |-> r.value]]
    ELSE r

\* analyze(source) once unit_names is known
analyze_units(src, names) ==
    IF ~names.ok THEN names
    ELSE analyze_report(names.value,
             AllOf([i \in 1..Len(src.children) |->
                       analyze_unit(src.children[i], names.value)]))

\* analyze(source): what it reports, or the exception that ends it
analyze(src) == analyze_units(src, collect_unit_names(src))

\* -------------------------------------------------------------------- main

NoTree == [kind |-> "none"]

MainIdle ==
    /\ pc = "reading" /\ source = <<>> /\ raw_lines = <<>> /\ logical_lines = <<>>
    /\ parsed = NoTree /\ task = "" /\ output = <<>>

TokIdle == tk_text = <<>> /\ tk_result = [state |-> "idle"]

LineIdle == ln_line = <<>> /\ ln_result = [state |-> "idle"]

Init == MainIdle /\ TokIdle /\ LineIdle

\* the lines of a file all come from one vocabulary
OneVocabulary(lines) == \E P \in Pools : {lines[i] : i \in 1..Len(lines)} \subseteq P

\* read_file: the next physical line of the file becomes a RawLine
ReadLine ==
    /\ pc = "reading"
    /\ Len(source) < MaxLines
    /\ \E l \in PoolLines :
          /\ OneVocabulary(Append(source, l))
          /\ source' = Append(source, l)
          /\ \E r \in {RawLineOf[l]} :
                IF r.ok
                THEN /\ raw_lines' = Append(raw_lines, r.line)
                     /\ UNCHANGED <<pc, output>>
                ELSE /\ pc' = "failed"
                     /\ output' = r.error
                     /\ UNCHANGED raw_lines
    /\ UNCHANGED <<logical_lines, parsed, task, tk_vars, ln_vars>>

\* read_file: the end of the file
EndOfFile ==
    /\ pc = "reading"
    /\ pc' = "read"
    /\ UNCHANGED <<source, raw_lines, logical_lines, parsed, task, output, tk_vars, ln_vars>>

\* main: logical_lines = parse_into_logical_lines(read_file(filename))
ParseLogical ==
    /\ pc = "read"
    /\ \E r \in {parse_into_logical_lines(raw_lines)} :
          IF r.ok
          THEN logical_lines' = r.value /\ pc' = "logical" /\ UNCHANGED output
          ELSE pc' = "failed" /\ output' = r.error /\ UNCHANGED logical_lines
    /\ UNCHANGED <<source, raw_lines, parsed, task, tk_vars, ln_vars>>

\* main: parsed = parse_source(logical_lines)
ParseSource ==
    /\ pc = "logical"
    /\ \E r \in {parse_source(logical_lines)} :
          IF r.ok
          THEN parsed' = r.value /\ pc' = "parsed" /\ UNCHANGED output
          ELSE pc' = "failed" /\ output' = r.error /\ UNCHANGED parsed
    /\ UNCHANGED <<source, raw_lines, logical_lines, task, tk_vars, ln_vars>>

\* main: args.task == 'plain'
TaskPlain ==
    /\ pc = "parsed"
    /\ task' = "plain" /\ output' = plain(parsed) /\ pc' = "done"
    /\ UNCHANGED <<source, raw_lines, logical_lines, parsed, tk_vars, ln_vars>>

\* main: args.task == 'reconstruct'
TaskReconstruct ==
    /\ pc = "parsed"
    /\ task' = "reconstruct" /\ output' = reconstruct(parsed) /\ pc' = "done"
    /\ UNCHANGED <<source, raw_lines, logical_lines, parsed, tk_vars, ln_vars>>

\* main: args.task == 'new-comments'
TaskNewComments ==
    /\ pc = "parsed"
    /\ task' = "new-comments" /\ output' = new_comments(raw_lines) /\ pc' = "done"
    /\ UNCHANGED <<source, raw_lines, logical_lines, parsed, tk_vars, ln_vars>>

\* main: args.task == 'indent'
TaskIndent ==
    /\ pc = "parsed"
    /\ task' = "indent" /\ output' = indent(parsed) /\ pc' = "done"
    /\ UNCHANGED <<source, raw_lines, logical_lines, parsed, tk_vars, ln_vars>>

\* main: args.task == 'remove-blanks'
TaskRemoveBlanks ==
    /\ pc = "parsed"
    /\ task' = "remove-blanks" /\ output' = remove_blanks(raw_lines) /\ pc' = "done"
    /\ UNCHANGED <<source, raw_lines, logical_lines, parsed, tk_vars, ln_vars>>

\* main: args.task == 'analyze'
TaskAnalyze ==
    /\ pc = "parsed"
    /\ task' = "analyze"
    /\ \E r \in {analyze(parsed)} :
          IF r.ok THEN output' = r.value /\ pc' = "done"
          ELSE output' = r.error /\ pc' = "failed"
    /\ UNCHANGED <<source, raw_lines, logical_lines, parsed, tk_vars, ln_vars>>

Next ==
    \/ ReadLine
    \/ EndOfFile
    \/ ParseLogical
    \/ ParseSource
    \/ TaskPlain
    \/ TaskReconstruct
    \/ TaskNewComments
    \/ TaskRemoveBlanks
    \/ TaskIndent
    \/ TaskAnalyze

Spec == Init /\ [][Next]_vars

\* the tokenizer on its own: texts typed character by character and parsed
TokNext == TokType \/ TokParse

SpecTok == Init /\ [][TokNext]_vars

\* ------------------------------------------------- RawLine, driven

\* the longest line typed character by character (shorter than 6 columns
\* as long as it stays at or below continuation_column)
MaxShortLen == 4

\* the characters the short lines are typed from
ShortChars == {" ", "1", "a", "c", "C", "!", "*", "\n"}

\* columns 1-5 of the composed lines
LabelFields ==
    { <<" "," "," "," "," ">>, <<" "," "," ","1","0">>, <<"1"," "," "," "," ">>,
      <<"0","0","0","1","0">>, <<"a"," "," "," "," ">>, <<" "," ","!"," "," ">>,
      <<"C"," "," "," "," ">> }

\* column 6 of the composed lines
Col6Chars == {" ", "0", "&", "1", "\t"}

\* str.upper on the letters of a phrase
Upper(s) == [i \in 1..Len(s) |-> CHOOSE u \in UpperLetters : UpperToLower[u] = s[i]]

RECURSIVE JoinWords(_, _)
\* sep.join(words)
JoinWords(words, sep) ==
    IF Len(words) = 1 THEN words[1]
    ELSE words[1] \o sep \o JoinWords(Tail(words), sep)

\* the code written after a keyword phrase
CodeTails == { <<"\n">>, <<" ","x","\n">> }

\* the keyword phrases of the table, written with and without blanks between
\* the words, in lower and in upper case
PhraseTexts ==
    UNION { { JoinWords(statements_all[i].words, sep),
              JoinWords([k \in 1..Len(statements_all[i].words) |->
                            Upper(statements_all[i].words[k])], sep) }
            : i \in 1..Len(statements_all), sep \in {<<>>, <<" ">>} }

\* columns 7.. of the composed lines
Codes ==
    { t \o tail : t \in PhraseTexts, tail \in CodeTails }
    \cup { <<>>, <<"\n">>, <<"x","=","1","\n">>, <<" ","e","n","d","i","f","\n">> }

\* the caller extends a short line by one character
LineType ==
    /\ Len(ln_line) < MaxShortLen
    /\ \E c \in ShortChars : ln_line' = Append(ln_line, c)
    /\ ln_result' = [state |-> "idle"]
    /\ UNCHANGED <<main_vars, tk_vars>>

\* the caller writes a whole line: label field, column 6, code
LineCompose ==
    /\ ln_line = <<>>
    /\ \E f \in LabelFields, c \in Col6Chars, code \in Codes :
          ln_line' = f \o <<c>> \o code
    /\ ln_result' = [state |-> "idle"]
    /\ UNCHANGED <<main_vars, tk_vars>>

\* the outcome of RawLine(line) as the caller sees it
Outcome(r) ==
    IF r.ok THEN [state |-> "line", line |-> r.line]
    ELSE [state |-> "raised", error |-> r.error]

\* RawLine(ln_line)
NewRawLine ==
    /\ ln_result.state = "idle"
    /\ ln_result' = Outcome(RawLine(ln_line))
    /\ UNCHANGED <<ln_line, main_vars, tk_vars>>

\* RawLine on its own: lines written by the caller and constructed
LineNext == LineType \/ LineCompose \/ NewRawLine

SpecLine == Init /\ [][LineNext]_vars

\* ---------------------------------------------------------------- properties

RECURSIVE SplitLines(_)
\* text.split("\n")
SplitLines(t) ==
    IF \A i \in 1..Len(t) : t[i] # "\n" THEN <<t>>
    ELSE LET k == CHOOSE i \in 1..Len(t) : t[i] = "\n" /\ \A j \in 1..(i - 1) : t[j] # "\n"
         IN  <<SubSeq(t, 1, k - 1)>> \o SplitLines(SubSeq(t, k + 1, Len(t)))

\* the lines of a text, each without its trailing whitespace
StrippedLines(t) == [i \in 1..Len(SplitLines(t)) |-> RStrip(SplitLines(t)[i])]

\* two texts are equal except for trailing whitespace on lines
SameModuloTrailing(a, b) == StrippedLines(a) = StrippedLines(b)

RECURSIVE BlocksUnder(_)
\* the outer and inner blocks of a tree
BlocksUnder(node) ==
    IF node.kind \notin {"outer_block", "inner_block"} THEN {}
    ELSE {node} \cup UNION {BlocksUnder(node.children[i]) : i \in 1..Len(node.children)}

\* the tree holds a block marked with the statement st
HasBlock(tree, st) ==
    \E b \in BlocksUnder(tree) : b.kind = "outer_block" /\ b.statement = st

\* C1: for every accepted source text, reconstruct(parse(s)) equals s except
\* for trailing whitespace on lines, labelled lines, lines with '0' in column 6,
\* continuation lines and short lines included.
C1_ReconstructRoundTrip ==
    (pc = "done" /\ task = "reconstruct") => SameModuloTrailing(output, Flatten(source))

\* C2: for every accepted input the tree holds every raw line exactly once and
\* in input order, and plain(parse(s)) is the concatenation of their originals.
C2_PlainIsConcatenation ==
    /\ pc \in {"parsed", "done"} => accept(parsed) = raw_lines
    /\ (pc = "done" /\ task = "plain") =>
          /\ output = Flatten([i \in 1..Len(raw_lines) |-> raw_lines[i].original])
          /\ output = Flatten(source)

\* a file whose tree holds an if_block and a do_block has been echoed by plain
C2_Witness ==
    /\ pc = "done" /\ task = "plain"
    /\ HasBlock(parsed, "if_block") /\ HasBlock(parsed, "do_block")
    /\ Len(source) = Len(raw_lines)

IsProperPrefix(a, b) == Len(a) < Len(b) /\ SubSeq(b, 1, Len(a)) = a

\* the letters of a keyword phrase, its words run together
PhraseChars(p) == Flatten(p.words)

\* the code begins with the phrase p, case-insensitively, spaces optional
BeginsWith(code, p) == check(code, p.words) # NoMatch

\* RawLine(ln_line) built an initial line
InitialBuilt == ln_result.state = "line" /\ ln_result.line.type = "initial"

\* C4: the table puts every phrase that is a proper prefix of a longer phrase
\* after the longer one, so a line that begins with the longer phrase is never
\* classified as the shorter one.
C4_NeverShorterPhrase ==
    InitialBuilt =>
        \A i, j \in 1..Len(statements_all) :
            (/\ statements_all[i].name = ln_result.line.statement
             /\ BeginsWith(ln_result.line.code, statements_all[j]))
            => ~IsProperPrefix(PhraseChars(statements_all[i]), PhraseChars(statements_all[j]))

\* the phrases that close a construct or a program unit
EndPhrases ==
    {"end if", "end do", "end function", "end subroutine", "end program", "end block data"}

ExpectedNewComments(lines) ==
    Flatten([i \in 1..Len(lines) |->
        IF /\ lines[i].type = "comment"
           /\ lines[i].original # <<>>
           /\ lines[i].original[1] \in {"c", "C", "*"}
        THEN <<"!">> \o Tail(lines[i].original)
        ELSE lines[i].original])

\* C6: new_comments emits every comment line that starts with c, C or *
\* with that character replaced by `!`, and every other line unchanged.
C6_NewComments ==
    (pc = "done" /\ task = "new-comments") => output = ExpectedNewComments(raw_lines)

\* the right-stripped line is longer than 5 characters and its column 6 is
\* neither a space nor '0'
MarkedColumn6(stripped) == Len(stripped) > 5 /\ stripped[6] \notin {" ", "0"}

\* C9: RawLine gives a non-comment line the type `continuation` exactly when
\* the right-stripped line is longer than 5 characters and its column 6 is
\* neither a space nor '0', and the type `initial` in every other case; the
\* constructor aborts on the assertion only in the first case and on a label
\* only in the second.
C9_Continuation ==
    /\ (ln_result.state = "line" /\ ln_result.line.type # "comment") =>
          /\ ln_result.line.type \in {"continuation", "initial"}
          /\ ln_result.line.type = "continuation" <=> MarkedColumn6(RStrip(ln_line))
    /\ (ln_result.state = "raised" /\ ln_result.error = "AssertionError") =>
          MarkedColumn6(RStrip(ln_line))
    /\ (ln_result.state = "raised" /\ ln_result.error = "Failure") =>
          ~MarkedColumn6(RStrip(ln_line))

\* a line with '0' in column 6 and code after it has been built as an initial line
C9_Witness ==
    /\ InitialBuilt
    /\ Len(ln_line) > 6 /\ ln_line[6] = "0"
    /\ ln_result.line.code # <<>>

\* the line has fewer than 6 columns
ShortLine == Len(ln_line) <= 5

\* a blank line, or one that starts with c, C or *, or with ! after blanks
IsCommentText(lowered) ==
    \/ lowered = <<>>
    \/ lowered[1] \in {"c", "*"}
    \/ \E k \in 1..Len(lowered) :
          lowered[k] = "!" /\ \A i \in 1..(k - 1) : lowered[i] \in SpaceChars

\* blanks, then one to five digits
IsLabelText(lowered) ==
    \E k \in 0..(Len(lowered) - 1) :
        /\ \A i \in 1..k : lowered[i] \in SpaceChars
        /\ \A i \in (k + 1)..Len(lowered) : lowered[i] \in Digits
        /\ Len(lowered) - k <= 5

\* C10 as stated: every line shorter than 6 columns is accepted and classified
\* `initial` with empty code and no tokens, whatever characters it holds.
C10_ShortLinesInitial ==
    (ShortLine /\ ln_result.state # "idle") =>
        /\ InitialBuilt
        /\ ln_result.line.code = <<>>
        /\ ln_result.line.tokens = <<>>

\* the outcome of RawLine on a short line whose right-stripped, lowered text
\* is `lowered`
ShortLineOutcome(lowered) ==
    IF IsCommentText(lowered)
    THEN ln_result.state = "line" /\ ln_result.line.type = "comment"
    ELSE IF IsLabelText(lowered)
    THEN /\ InitialBuilt
         /\ ln_result.line.code = <<>>
         /\ ln_result.line.tokens = <<>>
         /\ ln_result.line.label = DecimalValue(Strip(lowered), Len(Strip(lowered)))
    ELSE ln_result.state = "raised" /\ ln_result.error = "Failure"

\* C10, amended: a line shorter than 6 columns is a comment when it is blank or
\* starts with c, C, * or, after blanks, with !; any other short line is
\* accepted exactly when it holds a label of one to five digits after optional
\* blanks, and is then `initial` with empty code, no tokens and that label;
\* every remaining short line makes RawLine raise Failure.
C10_ShortLines ==
    (ShortLine /\ ln_result.state # "idle") => ShortLineOutcome(Lower(RStrip(ln_line)))

\* a short line holding a label after a blank has been built as an initial
\* line without code
C10_Witness ==
    /\ ShortLine /\ InitialBuilt
    /\ ln_line[1] = " "
    /\ ln_result.line.code = <<>>
    /\ ln_result.line.label = 1

\* n is a logical line with the statement st
IsLine(n, st) == n.kind = "logical_line" /\ n.statement = st

\* b is a block marked st
IsBlock(b, st) == b.kind = "outer_block" /\ b.statement = st

\* the blocks of the tree built by parse_source
Holders == BlocksUnder(parsed)

\* the tokens after the keyword hold a name token that reads `then`
HasThen(line) ==
    \E i \in 1..Len(line.tokens_after) :
        /\ line.tokens_after[i].tag = "name"
        /\ Lower(line.tokens_after[i].value) = <<"t","h","e","n">>

\* the code reads `do`, then a digit, blanks allowed before each
LabelledDo(line) ==
    \E a, b \in 0..Len(line.code) :
        /\ a + 3 + b <= Len(line.code)
        /\ \A i \in 1..a : line.code[i] \in SpaceChars
        /\ Lower(SubSeq(line.code, a + 1, a + 2)) = <<"d","o">>
        /\ \A i \in (a + 3)..(a + 2 + b) : line.code[i] \in SpaceChars
        /\ line.code[a + 3 + b] \in Digits

\* the child i of b opens the block b, marked st
IsHead(b, i, st) == IsBlock(b, st) /\ i = 1

\* a line with the statement st comes after child i of b
ClosedLater(b, i, st) == \E j \in (i + 1)..Len(b.children) : IsLine(b.children[j], st)

\* C7 as stated: an `if` line is the first child of an if_block if and only
\* if its tokens_after hold a `then` name token.
C7_IfBlockIffThen ==
    pc \in {"parsed", "done"} =>
        \A b \in Holders : \A i \in 1..Len(b.children) :
            IsLine(b.children[i], "if") =>
                (IsHead(b, i, "if_block") <=> HasThen(b.children[i]))

\* C7, amended: an `if` line is the first child of an if_block only if its
\* tokens_after hold a `then` name token, so an `if` line without one is
\* never the head of an if_block; every if_block begins with an `if` line and
\* ends with an `end if` line; and an `if ... then` line that stays a plain
\* line has no `end if` line after it among its siblings.
C7_IfBlockHeads ==
    pc \in {"parsed", "done"} =>
        \A b \in Holders :
            /\ IsBlock(b, "if_block") =>
                  /\ Len(b.children) >= 2
                  /\ IsLine(b.children[1], "if")
                  /\ IsLine(b.children[Len(b.children)], "end if")
            /\ \A i \in 1..Len(b.children) :
                  IsLine(b.children[i], "if") =>
                      /\ IsHead(b, i, "if_block") => HasThen(b.children[i])
                      /\ (~IsHead(b, i, "if_block") /\ HasThen(b.children[i]))
                            => ~ClosedLater(b, i, "end if")

\* a tree with an if_block and, in some inner block, an `if` line without
\* `then` kept as a plain line
C7_Witness ==
    /\ pc \in {"parsed", "done"}
    /\ HasBlock(parsed, "if_block")
    /\ \E b \in Holders : \E i \in 1..Len(b.children) :
          /\ b.kind = "inner_block"
          /\ IsLine(b.children[i], "if")
          /\ ~HasThen(b.children[i])

\* C8 as stated: a `do` line is the first child of a do_block if and only if
\* its code does not read `do` followed by a label, and every do_block has
\* exactly the children [do line, one InnerBlock, end do line].
C8_DoBlockIffUnlabelled ==
    pc \in {"parsed", "done"} =>
        \A b \in Holders :
            /\ IsBlock(b, "do_block") =>
                  /\ Len(b.children) = 3
                  /\ IsLine(b.children[1], "do")
                  /\ b.children[2].kind = "inner_block"
                  /\ IsLine(b.children[3], "end do")
            /\ \A i \in 1..Len(b.children) :
                  IsLine(b.children[i], "do") =>
                      (IsHead(b, i, "do_block") <=> ~LabelledDo(b.children[i]))

\* C8, amended: a `do` line is the first child of a do_block only if its code
\* does not read `do` followed by a label, so a labelled `do` line is never
\* the head of a do_block; every do_block has exactly the children [do line,
\* one InnerBlock, end do line]; and an unlabelled `do` line that stays a
\* plain line has no `end do` line after it among its siblings.
C8_DoBlockHeads ==
    pc \in {"parsed", "done"} =>
        \A b \in Holders :
            /\ IsBlock(b, "do_block") =>
                  /\ Len(b.children) = 3
                  /\ IsLine(b.children[1], "do")
                  /\ b.children[2].kind = "inner_block"
                  /\ IsLine(b.children[3], "end do")
            /\ \A i \in 1..Len(b.children) :
                  IsLine(b.children[i], "do") =>
                      /\ IsHead(b, i, "do_block") => ~LabelledDo(b.children[i])
                      /\ (~IsHead(b, i, "do_block") /\ ~LabelledDo(b.children[i]))
                            => ~ClosedLater(b, i, "end do")

\* a tree with a do_block and, in some inner block, a labelled `do` line kept
\* as a plain line
C8_Witness ==
    /\ pc \in {"parsed", "done"}
    /\ HasBlock(parsed, "do_block")
    /\ \E b \in Holders : \E i \in 1..Len(b.children) :
          /\ b.kind = "inner_block"
          /\ IsLine(b.children[i], "do")
          /\ LabelledDo(b.children[i])

\* the positions of the children of a logical line that have the type t
ChildrenOfType(ll, t) == {i \in 1..Len(ll.children) : ll.children[i].type = t}

\* a continuation line comes before every initial line of the list
ContinuationFirst(lines) ==
    \E i \in 1..Len(lines) :
        /\ lines[i].type = "continuation"
        /\ \A j \in 1..(i - 1) : lines[j].type # "initial"

\* the whole file has been read and parse_into_logical_lines has run on it
LogicalLinesTried == pc \notin {"reading", "read"} /\ Len(raw_lines) = Len(source)

\* C11: every LogicalLine returned by parse_into_logical_lines has exactly one
\* initial child, with every continuation child after it; a list of raw lines
\* with a continuation line before any initial line is rejected with a parse
\* failure and yields no logical lines.
C11_LogicalLines ==
    /\ \A k \in 1..Len(logical_lines) :
          /\ Cardinality(ChildrenOfType(logical_lines[k], "initial")) = 1
          /\ \A i \in ChildrenOfType(logical_lines[k], "initial") :
                \A c \in ChildrenOfType(logical_lines[k], "continuation") : i < c
    /\ (LogicalLinesTried /\ ContinuationFirst(raw_lines)) =>
          /\ pc = "failed" /\ output = "Failure"
          /\ logical_lines = <<>>

\* a file has been split into logical lines, one of them with a comment before
\* its initial line and a continuation line after it
C11_Witness ==
    /\ pc = "logical"
    /\ \E k \in 1..Len(logical_lines) :
          /\ ChildrenOfType(logical_lines[k], "continuation") # {}
          /\ logical_lines[k].children[1].type = "comment"

\* C12: indent is idempotent on its own output: the text indent prints for an
\* accepted input is itself accepted, and indent prints the same text for it.
C12_IndentIdempotent ==
    (pc = "done" /\ task = "indent") =>
        /\ indent_file(output).ok
        /\ indent_file(output).value = output

\* analyze has reported on the file
Analyzed == pc = "done" /\ task = "analyze"

\* the number of logical lines of the units before unit i
LinesBefore(i) == Len(Flatten([j \in 1..(i - 1) |-> accept_lines(parsed.children[j])]))

\* 1 when unit i begins with a header line
HeaderLines(i) == IF parsed.children[i].children[1].kind = "logical_line" THEN 1 ELSE 0

\* the body of unit i as the source has it: the logical lines between its
\* header, if any, and its end line, in source order
UnitBody(i) ==
    SubSeq(logical_lines, LinesBefore(i) + HeaderLines(i) + 1,
           LinesBefore(i) + Len(accept_lines(parsed.children[i])) - 1)

\* line k of a body declares the label l
Declares(body, k, l) == body[k].statement # "format" /\ body[k].label = l

\* the labels carried by the lines of a body that are not format lines
LabelsOn(body) ==
    {body[k].label : k \in {j \in 1..Len(body) : Declares(body, j, body[j].label)}}
    \ {NoLabel}

\* the numbers of the lines that declare l or mention it as an integer
LabelLines(body, l) ==
    {k \in 1..Len(body) : Declares(body, k, l) \/ l \in int_tokens(body[k])}

Least(S) == CHOOSE m \in S : \A n \in S : m <= n

Greatest(S) == CHOOSE m \in S : \A n \in S : n <= m

\* the intervals the label analysis owes a body
ExpectedLabels(body) ==
    {Interval(l, Least(LabelLines(body, l)), Greatest(LabelLines(body, l))) :
        l \in LabelsOn(body)}

\* C13: label analysis numbers the logical lines of a unit body 1, 2, 3, ... in
\* source order, nested lines included, and for every label carried by a line
\* that is not a format line reports the interval (label, min, max) over the
\* lines that declare it and the lines whose tokens_after hold an integer token
\* equal to it.
C13_LabelIntervals ==
    Analyzed =>
        \A i \in 1..Len(output.units) : output.units[i].labels = ExpectedLabels(UnitBody(i))

\* a label that is referenced before the line that declares it, in a file with
\* a do block, has been reported
C13_Witness ==
    /\ Analyzed
    /\ HasBlock(parsed, "do_block")
    /\ \E iv \in output.units[1].labels :
          /\ iv.start < iv.end
          /\ UnitBody(1)[iv.start].label = NoLabel

\* the line begins with a phrase of statements["specification"]
SpecificationLine(line) ==
    \E i \in 1..Len(specification) : BeginsWith(line.code, specification[i])

\* the line is `implicit none`
ImplicitNone(line) ==
    /\ BeginsWith(line.code, Phrase("implicit", <<<<"i","m","p","l","i","c","i","t">>>>))
    /\ mentioned_names(line) = <<<<"n","o","n","e">>>>

\* the names a body declares on its specification lines
DeclaredNames(body) ==
    UNION {Elements(name_tokens(body[k].tokens)) :
              k \in {j \in 1..Len(body) : SpecificationLine(body[j]) /\ ~ImplicitNone(body[j])}}

\* the names after the statement keyword on the lines that are not format lines
UsedNames(body) ==
    UNION {Elements(mentioned_names(body[k])) :
              k \in {j \in 1..Len(body) : body[j].statement # "format"}}

\* the names the variable analysis owes as unaccounted for
ExpectedUnaccounted(body, formal_params, unit_names) ==
    UsedNames(body)
    \ (DeclaredNames(body) \cup Elements(formal_params) \cup keywords \cup intrinsics
       \cup Elements(unit_names))

\* C14: variable analysis reports a name as unaccounted for exactly when it is
\* a name token after the statement keyword on a line that is not a format line
\* and is neither a name on a line that begins with a specification phrase
\* (`implicit none` contributing nothing), nor a formal parameter, nor a word of
\* a statement phrase or then / none, nor an intrinsic, nor a unit name.
C14_UnaccountedFor ==
    Analyzed =>
        \A i \in 1..Len(output.units) :
            output.units[i].variables.unaccounted_for =
                ExpectedUnaccounted(UnitBody(i), output.units[i].formal_params,
                                    output.unit_names)

\* the kinds of program unit: the statement of the block, of its header line
\* and of its own end line
UnitKinds ==
    { [block |-> "function_block", header |-> "function", end |-> "end function"],
      [block |-> "subroutine_block", header |-> "subroutine", end |-> "end subroutine"],
      [block |-> "block_data_block", header |-> "block data", end |-> "end block data"],
      [block |-> "program_block", header |-> "program", end |-> "end program"] }

\* the unit u has the shape of the kind k with n children
UnitShape(u, k, n) ==
    /\ u.kind = "outer_block" /\ u.statement = k.block
    /\ n \in {2, 3}
    /\ n = 2 => k.header = "program"
    /\ n = 3 => /\ u.children[1].kind = "logical_line"
                /\ u.children[1].statement = k.header
    /\ u.children[n - 1].kind = "inner_block"
    /\ \A l \in Elements(accept_lines(u.children[n - 1])) :
          l.statement \notin Names(top_level)
    /\ u.children[n].kind = "logical_line"
    /\ u.children[n].statement \in {"end", k.end}

\* C15: every program unit of a source_file is [header line of its kind, one
\* InnerBlock, end line], or [one InnerBlock, end line] for a main program
\* without a header; the InnerBlock is there even when the body is empty and
\* holds no line of the top-level category; the end line is `end` or the
\* `end <kind>` of the unit's kind.
C15_UnitShape ==
    parsed # NoTree =>
        /\ parsed.kind = "outer_block" /\ parsed.statement = "source_file"
        /\ \A i \in 1..Len(parsed.children) :
              \E k \in UnitKinds :
                  UnitShape(parsed.children[i], k, Len(parsed.children[i].children))

\* a function with an empty body closed by a bare end, followed by a main
\* program without a header, has been parsed
C15_Witness ==
    /\ parsed # NoTree
    /\ \E i, j \in 1..Len(parsed.children) :
          /\ parsed.children[i].statement = "function_block"
          /\ Len(parsed.children[i].children) = 3
          /\ parsed.children[i].children[2].children = <<>>
          /\ parsed.children[i].children[3].statement = "end"
          /\ Len(parsed.children[j].children) = 2

\* the text holds nothing but whitespace
WhitespaceOnly(text) == \A i \in 1..Len(text) : text[i] \in PyWhitespace

\* what remove_blanks is to print for the lines read: one "\n" where a run of
\* whitespace-only lines begins, nothing for the rest of the run, every other
\* line as it was
ExpectedRemoveBlanks(lines) ==
    Flatten([i \in 1..Len(lines) |->
        IF ~WhitespaceOnly(lines[i]) THEN lines[i]
        ELSE IF i > 1 /\ WhitespaceOnly(lines[i - 1]) THEN <<>>
        ELSE <<"\n">>])

\* no two adjacent lines of the text are whitespace-only
NoAdjacentBlanks(lines) ==
    \A k \in 1..(Len(lines) - 1) : ~(WhitespaceOnly(lines[k]) /\ WhitespaceOnly(lines[k + 1]))

LabelFieldUsed(line) == \E i \in 1..continuation_column : i <= Len(line) /\ line[i] \notin PyWhitespace

\* the line as written has a column 6, and it is neither a space nor '0'
WrittenColumn6(line) == Len(line) > 5 /\ line[6] \notin {" ", "0", "\n"}

\* RawLine(ln_line) aborted on its assertion
AssertionRaised == ln_result.state = "raised" /\ ln_result.error = "AssertionError"

\* every continuation line constructed has blank columns 1-5
BlankLabelField ==
    (ln_result.state = "line" /\ ln_result.line.type = "continuation") =>
        ~LabelFieldUsed(ln_result.line.original)

Indented == pc = "done" /\ task = "indent"

RECURSIVE LinesAtDepth(_, _)
\* the raw lines of a tree in order, each with the number of InnerBlocks
\* that enclose it; d is that number for the node itself
LinesAtDepth(node, d) ==
    IF node.kind = "raw_line" THEN <<[line |-> node, depth |-> d]>>
    ELSE Flatten([i \in 1..Len(node.children) |->
             LinesAtDepth(node.children[i],
                          IF node.kind = "inner_block" THEN d + 1 ELSE d)])

RECURSIVE ParentsAtDepth(_, _)
\* the blocks of a tree that have an InnerBlock among their children, each
\* with the number of InnerBlocks that enclose it
ParentsAtDepth(node, d) ==
    IF node.kind \notin {"outer_block", "inner_block"} THEN {}
    ELSE (IF \E i \in 1..Len(node.children) : node.children[i].kind = "inner_block"
          THEN {[block |-> node, depth |-> d]} ELSE {})
         \cup UNION {ParentsAtDepth(node.children[i],
                                    IF node.kind = "inner_block" THEN d + 1 ELSE d) :
                        i \in 1..Len(node.children)}

\* the counter owed at the depth d
CounterAt(d) == 1 + indent_width * d

\* the text with its leading whitespace removed
WithoutLeading(text) ==
    IF WhitespaceOnly(text) THEN <<>>
    ELSE SubSeq(text, CHOOSE k \in 1..Len(text) :
                          /\ text[k] \notin PyWhitespace
                          /\ \A j \in 1..(k - 1) : text[j] \in PyWhitespace,
                Len(text))

\* the text owed for a raw line at the counter n
IndentedLine(line, n) ==
    IF line.type = "comment" THEN line.original
    ELSE SubSeq(line.original, 1, IF Len(line.original) < 6 THEN Len(line.original) ELSE 6)
         \o [i \in 1..(IF line.type = "continuation" THEN n + indent_width ELSE n) |-> " "]
         \o WithoutLeading(line.code)

\* the lines emitted by the traversal r are those of exp, each at the counter
\* of its depth and with the text owed there; the traversal ends at 1 and the
\* texts make up the output
EmittedAsOwed(r, exp) ==
    /\ Len(r.emitted) = Len(exp)
    /\ \A k \in 1..Len(exp) :
          /\ r.emitted[k].line = exp[k].line
          /\ r.emitted[k].current = CounterAt(exp[k].depth)
          /\ r.emitted[k].text = IndentedLine(exp[k].line, CounterAt(exp[k].depth))
    /\ r.current = 1
    /\ output = Flatten([k \in 1..Len(exp) |->
                            IndentedLine(exp[k].line, CounterAt(exp[k].depth))])

\* C18 as stated: in an indent traversal the counter is 1 + indent_width x
\* (number of enclosing InnerBlocks) at every raw line, and it is back at 1
\* after the traversal of any InnerBlock's parent; a line that is not a
\* comment is emitted as original[:6], that many spaces (indent_width more for
\* a continuation), then the code without its leading whitespace; comments
\* are emitted unchanged.
C18_CounterBackAtOne ==
    Indented =>
        /\ EmittedAsOwed(Indent_accept(parsed, 1), LinesAtDepth(parsed, 0))
        /\ \A p \in ParentsAtDepth(parsed, 0) :
              Indent_accept(p.block, CounterAt(p.depth)).current = 1

\* C18, amended: the counter is 1 + indent_width x (number of enclosing
\* InnerBlocks) at every raw line, and after the traversal of an InnerBlock's
\* parent it is back at the value it had when that parent was entered, which
\* is 1 for a program unit and for the whole file; the lines are emitted as
\* stated.
C18_CounterRestored ==
    Indented =>
        /\ EmittedAsOwed(Indent_accept(parsed, 1), LinesAtDepth(parsed, 0))
        /\ \A p \in ParentsAtDepth(parsed, 0) :
              Indent_accept(p.block, CounterAt(p.depth)).current = CounterAt(p.depth)

\* indent has printed a file with a block nested in a unit's body whose own
\* body holds a line, two InnerBlocks deep
C18_Witness ==
    /\ Indented
    /\ \E k \in 1..Len(LinesAtDepth(parsed, 0)) : LinesAtDepth(parsed, 0)[k].depth = 2
    /\ \E p \in ParentsAtDepth(parsed, 0) : p.depth = 1

====
